---- MODULE Spec2Model ----
(***************************************************************************)
(* Model of the URL shortener of src/main.rs: the `urls` table, the store  *)
(* operations PgState::shorten and PgState::get_url, and the two axum      *)
(* handlers `shorten` (POST /) and `redirect` (GET /:id) that wrap them.   *)
(*                                                                         *)
(* Requests run concurrently, one per client slot.  Every `.await` on a    *)
(* sqlx query is one atomic step against the shared table (the statement   *)
(* executes and its result is delivered); the code between two awaits is   *)
(* local to the request and is folded into the step of the await before    *)
(* it.  A failing statement (connection loss, pool time-out) returns       *)
(* sqlx::Error without having changed the table.                           *)
(***************************************************************************)
EXTENDS Naturals, Sequences, FiniteSets, Bags, TLC

(* ---------------- bounds ---------------- *)
\* number of concurrent client slots (in-flight HTTP requests)
NumProcs == 2
\* size of the identifier space nanoid!(6) draws from (64^6 in the program)
NumIds == 2
\* number of distinct URL strings clients submit
NumUrls == 2
\* number of HTTP requests served in one run
MaxCalls == 3

Procs == 1..NumProcs

(* ---------------- inputs ---------------- *)
\* last character of a generated identifier, taken from nanoid's alphabet
Alphabet == <<"9", "A", "b", "_", "-", "z">>
\* nanoid!(6): a 6-character string
IdOf(n) == "Ab3dE" \o Alphabet[n]
Ids == {IdOf(n) : n \in 1..NumIds}
\* a path segment that is no generated identifier (Path<String> is any string)
OtherId == "ZZZZZZZ"
LookupIds == Ids \cup {OtherId}

\* URL strings as byte sequences: "a", "a\n", "b", "\x7f", "\t"
UrlSamples == << <<97>>, <<97, 10>>, <<98>>, <<127>>, <<9>> >>
Urls == {UrlSamples[n] : n \in 1..NumUrls}

(* ---------------- constants of the program ---------------- *)
LISTEN_ADDR == "0.0.0.0:8080"
CREATED == 201
FOUND == 302
NOT_FOUND == 404
UNPROCESSABLE_ENTITY == 422
INTERNAL_SERVER_ERROR == 500

\* the sqlx::Error a failing statement produces (connection loss)
PersistenceFailures == {"Io"}

(* ---------------- values ---------------- *)
\* ShortenError
NoErr == [code |-> 0, inner |-> "", kind |-> "none"]
SqlError(e) == [code |-> 0, inner |-> e, kind |-> "SqlError"]
StatusCodeError(c) == [code |-> c, inner |-> "", kind |-> "StatusCode"]

\* Result<String, ShortenError>
NoRet == [err |-> NoErr, ok |-> FALSE, val |-> ""]
Ok(v) == [err |-> NoErr, ok |-> TRUE, val |-> v]
Err(e) == [err |-> e, ok |-> FALSE, val |-> ""]

\* an HTTP response: status, plain-text or JSON url body, headers
NoResp == [body |-> "", hdr |-> {}, status |-> 0]

\* struct Records, a row of the table
Records(i, u) == [id |-> i, url |-> u]

\* format!("{}", status)
StatusText(s) ==
    CASE s = NOT_FOUND -> "404 Not Found"
      [] s = UNPROCESSABLE_ENTITY -> "422 Unprocessable Entity"
      [] s = INTERNAL_SERVER_ERROR -> "500 Internal Server Error"
      [] OTHER -> "other"

VARIABLES
    table,      \* the rows of `urls`, a bag of Records (no constraint on id)
    pc,         \* per client: idle, count, upsert, lookup, done, panicked
    req,        \* per client: the request being served
    id,         \* per client: the candidate `id` of PgState::shorten
    flag,       \* per client: `flag.0`, the result of the last count query
    ret,        \* per client: the Result the store call returned
    resp,       \* per client: the HTTP response of the handler
    fault,      \* per client: a statement of this request failed (history)
    fresh,      \* per client: the POSTed url had no row when the call began
    shortened,  \* history: the <<url, id>> pairs shorten has returned
    calls       \* history: the number of requests accepted so far

vars == <<table, pc, req, id, flag, ret, resp, fault, fresh, shortened, calls>>

(* ---------------- the table ---------------- *)
Rows(t) == BagToSet(t)
\* the rows of t that satisfy P, with their multiplicities
CountWhere(t, S) == BagCardinality([r \in S |-> t[r]])
\* SELECT COUNT(id) FROM URLS WHERE id = $1
CountId(t, i) == CountWhere(t, {r \in Rows(t) : r.id = i})
CountUrl(t, u) == CountWhere(t, {r \in Rows(t) : r.url = u})

\* PgState::try_new: CREATE TABLE IF NOT EXISTS urls (id VARCHAR(6), url TEXT NOT NULL UNIQUE)
try_new == EmptyBag

\* the loop condition `while flag.0 == 1`
LoopAtMostOne(n) == n <= 1
LoopMoreThanOne(n) == n > 1
LoopAgain(n) == n = 1

\* INSERT INTO urls (id, url) VALUES ($1, $2)
\*   ON CONFLICT(url) DO UPDATE SET url = EXCLUDED.url RETURNING id
\* one atomic statement: the new table and the returned id
BlindInsert(t, i, u) ==
    [table |-> t (+) SetToBag({Records(i, u)}), ret |-> Ok(i)]
InsertOrError(t, i, u) ==
    IF \E r \in Rows(t) : r.url = u
    THEN [table |-> t, ret |-> Err(SqlError("Database"))]
    ELSE [table |-> t (+) SetToBag({Records(i, u)}), ret |-> Ok(i)]
UpsertCandidate(t, i, u) ==
    IF \E r \in Rows(t) : r.url = u
    THEN [table |-> t, ret |-> Ok(i)]
    ELSE [table |-> t (+) SetToBag({Records(i, u)}), ret |-> Ok(i)]
InsertThenError(t, i, u) ==
    IF \E r \in Rows(t) : r.url = u
    THEN [table |-> t (+) SetToBag({Records(i, u)}),
          ret |-> Err(SqlError("Database"))]
    ELSE [table |-> t (+) SetToBag({Records(i, u)}), ret |-> Ok(i)]
UpsertReplaceId(t, i, u) ==
    IF \E r \in Rows(t) : r.url = u
    THEN [table |-> SetToBag({r \in Rows(t) : r.url # u} \cup {Records(i, u)}),
          ret |-> Ok(i)]
    ELSE [table |-> t (+) SetToBag({Records(i, u)}), ret |-> Ok(i)]
Upsert(t, i, u) ==
    IF \E r \in Rows(t) : r.url = u
    THEN \* conflict on url: the row's url is set to itself, its id returned
         [table |-> t, ret |-> Ok((CHOOSE r \in Rows(t) : r.url = u).id)]
    ELSE [table |-> t (+) SetToBag({Records(i, u)}), ret |-> Ok(i)]

\* SELECT url FROM urls WHERE id = $1, fetch_one: the first row the engine
\* returns (any matching row, the statement has no ORDER BY), or RowNotFound
GetUrlDefault(t, i) ==
    IF \E r \in Rows(t) : r.id = i
    THEN {Ok(r.url) : r \in {r \in Rows(t) : r.id = i}}
    ELSE {Ok(<<>>)}
GetUrlIo(t, i) ==
    IF \E r \in Rows(t) : r.id = i
    THEN {Ok(r.url) : r \in {r \in Rows(t) : r.id = i}}
    ELSE {Err(SqlError("Io"))}
GetUrl(t, i) ==
    IF \E r \in Rows(t) : r.id = i
    THEN {Ok(r.url) : r \in {r \in Rows(t) : r.id = i}}
    ELSE {Err(SqlError("RowNotFound"))}

(* ---------------- the handlers ---------------- *)
\* impl IntoResponse for ShortenError
into_response(e) ==
    LET status == CASE e.kind = "SqlError" -> INTERNAL_SERVER_ERROR
                    [] e.kind = "IoError" -> INTERNAL_SERVER_ERROR
                    [] e.kind = "StatusCode" -> e.code
    IN [body |-> StatusText(status), hdr |-> {}, status |-> status]

\* the handler `shorten` after state.shorten(&req.url).await
ShortenNoMapErr(r) ==
    IF r.ok
    THEN [body |-> "http://" \o LISTEN_ADDR \o "/" \o r.val, hdr |-> {},
          status |-> CREATED]
    ELSE into_response(r.err)
ShortenResponse(r) ==
    IF r.ok
    THEN [body |-> "http://" \o LISTEN_ADDR \o "/" \o r.val, hdr |-> {},
          status |-> CREATED]
    ELSE into_response(StatusCodeError(UNPROCESSABLE_ENTITY))

\* http::HeaderValue: a byte is valid when b >= 32 && b != 127 || b == '\t'
IsValidHeaderByte(b) == (b >= 32 /\ b # 127) \/ b = 9
\* url.parse::<HeaderValue>() succeeds
HeaderValueParses(u) == \A k \in 1..Len(u) : IsValidHeaderByte(u[k])

\* the handler `redirect` after state.get_url(&id).await; `unwrap` panics
\* when the stored url is no valid header value
RedirectPanics(r) == r.ok /\ ~HeaderValueParses(r.val)
RedirectResponse(r) ==
    IF r.ok
    THEN [body |-> "", hdr |-> {<<"location", r.val>>}, status |-> FOUND]
    ELSE into_response(StatusCodeError(NOT_FOUND))

(* ---------------- initial state ---------------- *)
NoReq == [id |-> "", url |-> <<>>, method |-> "none"]

Init ==
    /\ table = try_new
    /\ pc = [p \in Procs |-> "idle"]
    /\ req = [p \in Procs |-> NoReq]
    /\ id = [p \in Procs |-> ""]
    /\ flag = [p \in Procs |-> 0]
    /\ ret = [p \in Procs |-> NoRet]
    /\ resp = [p \in Procs |-> NoResp]
    /\ fault = [p \in Procs |-> FALSE]
    /\ fresh = [p \in Procs |-> FALSE]
    /\ shortened = {}
    /\ calls = 0

Finished(p) == pc[p] \in {"idle", "done", "panicked"}

\* the request-local state of a new request
Begin(p, r, next) ==
    /\ calls < MaxCalls
    /\ calls' = calls + 1
    /\ pc' = [pc EXCEPT ![p] = next]
    /\ req' = [req EXCEPT ![p] = r]
    /\ id' = [id EXCEPT ![p] = ""]
    /\ flag' = [flag EXCEPT ![p] = 0]
    /\ ret' = [ret EXCEPT ![p] = NoRet]
    /\ resp' = [resp EXCEPT ![p] = NoResp]
    /\ fault' = [fault EXCEPT ![p] = FALSE]
    /\ fresh' = [fresh EXCEPT ![p] = r.method = "POST" /\ CountUrl(table, r.url) = 0]
    /\ UNCHANGED <<table, shortened>>

\* POST / with body {"url": u}: the handler calls state.shorten(&req.url)
PostRequest(p) ==
    /\ Finished(p)
    /\ \E u \in Urls : Begin(p, [id |-> "", url |-> u, method |-> "POST"], "count")

\* GET /:id: the handler calls state.get_url(&id)
GetRequest(p) ==
    /\ Finished(p)
    /\ \E i \in LookupIds : Begin(p, [id |-> i, url |-> <<>>, method |-> "GET"], "lookup")

\* the handler's answer once the store call has returned r; `flag` is
\* dropped with the store call's frame
Respond(p, r, answer) ==
    /\ flag' = [flag EXCEPT ![p] = 0]
    /\ ret' = [ret EXCEPT ![p] = r]
    /\ resp' = [resp EXCEPT ![p] = answer]
    /\ pc' = [pc EXCEPT ![p] = "done"]

\* PgState::shorten: id = nanoid!(6) gives c, then the count query and the
\* loop test
CountDraw(p, c) ==
    /\ pc[p] = "count"
    /\ LET n == CountId(table, c) IN
         /\ id' = [id EXCEPT ![p] = c]
         /\ flag' = [flag EXCEPT ![p] = n]
         /\ pc' = [pc EXCEPT ![p] = IF LoopAgain(n) THEN "count" ELSE "upsert"]
    /\ UNCHANGED <<table, req, ret, resp, fault, fresh, shortened, calls>>

\* one pass of the loop of PgState::shorten, whatever nanoid draws
CountQuery(p) ==
    /\ pc[p] = "count"
    /\ \E c \in Ids : CountDraw(p, c)

\* the count query fails: `?` returns the error, the handler answers
CountFail(p) ==
    /\ pc[p] = "count"
    /\ \E e \in PersistenceFailures :
         Respond(p, Err(SqlError(e)), ShortenResponse(Err(SqlError(e))))
    /\ fault' = [fault EXCEPT ![p] = TRUE]
    /\ UNCHANGED <<table, req, id, fresh, shortened, calls>>

\* PgState::shorten: the insert-or-update statement and Ok(ret.id)
UpsertStep(p) ==
    /\ pc[p] = "upsert"
    /\ LET r == Upsert(table, id[p], req[p].url) IN
         /\ table' = r.table
         /\ Respond(p, r.ret, ShortenResponse(r.ret))
         /\ shortened' = IF r.ret.ok
                         THEN shortened \cup {<<req[p].url, r.ret.val>>}
                         ELSE shortened
    /\ UNCHANGED <<req, id, fault, fresh, calls>>

\* the insert-or-update statement fails
UpsertFail(p) ==
    /\ pc[p] = "upsert"
    /\ \E e \in PersistenceFailures :
         Respond(p, Err(SqlError(e)), ShortenResponse(Err(SqlError(e))))
    /\ fault' = [fault EXCEPT ![p] = TRUE]
    /\ UNCHANGED <<table, req, id, fresh, shortened, calls>>

\* PgState::get_url and the rest of `redirect`
Lookup(p) ==
    /\ pc[p] = "lookup"
    /\ \E r \in GetUrl(table, req[p].id) :
         IF RedirectPanics(r)
         THEN /\ ret' = [ret EXCEPT ![p] = r]
              /\ pc' = [pc EXCEPT ![p] = "panicked"]
              /\ UNCHANGED <<resp, flag>>
         ELSE Respond(p, r, RedirectResponse(r))
    /\ UNCHANGED <<table, req, id, fault, fresh, shortened, calls>>

\* the lookup statement fails
LookupFail(p) ==
    /\ pc[p] = "lookup"
    /\ \E e \in PersistenceFailures :
         Respond(p, Err(SqlError(e)), RedirectResponse(Err(SqlError(e))))
    /\ fault' = [fault EXCEPT ![p] = TRUE]
    /\ UNCHANGED <<table, req, id, fresh, shortened, calls>>

Next ==
    \E p \in Procs :
        \/ PostRequest(p)
        \/ GetRequest(p)
        \/ CountQuery(p)
        \/ CountFail(p)
        \/ UpsertStep(p)
        \/ UpsertFail(p)
        \/ Lookup(p)
        \/ LookupFail(p)

Spec == Init /\ [][Next]_vars

\* the runs in which no statement fails: every client sends one POST /,
\* whose loop draws every identifier again and again (nanoid is a uniform
\* generator) and whose statements the pool eventually executes
\* the one POST / of client p
FirstPost(p) ==
    /\ pc[p] = "idle"
    /\ PostRequest(p)

LiveNext ==
    \E p \in Procs :
        \/ FirstPost(p)
        \/ CountQuery(p)
        \/ UpsertStep(p)

Fairness ==
    \A p \in Procs :
        /\ WF_vars(UpsertStep(p))
        /\ \A c \in Ids : WF_vars(CountDraw(p, c))

\* the fairness above and no failing statement
LiveSpec == Init /\ [][LiveNext]_vars /\ Fairness

TypeOK ==
    /\ \A p \in Procs : pc[p] \in {"idle", "count", "upsert", "lookup", "done", "panicked"}
    /\ \A r \in Rows(table) : r.id \in Ids /\ r.url \in Urls

(* ---------------- vocabulary of the properties ---------------- *)
\* the request of p has been answered, or its handler has panicked
PostOver(p) == req[p].method = "POST" /\ pc[p] = "done"
GetOver(p) == req[p].method = "GET" /\ pc[p] \in {"done", "panicked"}
\* the identifiers shorten has returned so far
ReturnedIds == {s[2] : s \in shortened}

(* ---------------- C1 ---------------- *)
\* C1 (as claimed): whenever a get_url(i) statement runs, without a failure
\* of the persistence layer, after some shorten(u) call has returned i, it
\* yields exactly u.
RoundTrip ==
    [][\A p \in Procs :
         (pc[p] = "lookup" /\ pc'[p] # "lookup" /\ ~fault'[p]) =>
            \A s \in shortened :
               s[2] = req[p].id => (ret'[p].ok /\ ret'[p].val = s[1])]_vars

(* ---------------- C2 ---------------- *)
\* C2: a shorten(u) call that began when u already had a row (a call after
\* an earlier shorten(u) returned) returns the identifier every earlier
\* shorten(u) call returned, and the table holds exactly one row for u.
IdempotentUrl ==
    \A p \in Procs :
       (PostOver(p) /\ ~fresh[p] /\ ret[p].ok) =>
          /\ \A s \in shortened : s[1] = req[p].url => s[2] = ret[p].val
          /\ \E s \in shortened : s[1] = req[p].url
          /\ CountUrl(table, req[p].url) = 1

\* a resubmission has returned while its own candidate was another identifier
IdempotentUrlWitness ==
    \E p \in Procs :
       /\ PostOver(p) /\ ~fresh[p] /\ ret[p].ok
       /\ id[p] # ret[p].val

(* ---------------- C3 ---------------- *)
\* C3: any two callers that ran shorten(u) for the same u, both begun while
\* u had no row (so the calls overlapped), and whose statements the
\* persistence layer did not fail, have both returned the same identifier,
\* neither an error, and the table holds exactly one row for u.
SameUrlConcurrency ==
    \A p, q \in Procs :
       (/\ p # q /\ PostOver(p) /\ PostOver(q)
        /\ req[p].url = req[q].url
        /\ fresh[p] /\ fresh[q] /\ ~fault[p] /\ ~fault[q]) =>
          /\ ret[p].ok /\ ret[q].ok
          /\ ret[p].val = ret[q].val
          /\ CountUrl(table, req[p].url) = 1

\* two overlapping callers for one new url drew different candidates and
\* have both returned
SameUrlConcurrencyWitness ==
    \E p, q \in Procs :
       /\ p # q /\ PostOver(p) /\ PostOver(q)
       /\ req[p].url = req[q].url
       /\ fresh[p] /\ fresh[q] /\ ~fault[p] /\ ~fault[q]
       /\ id[p] # id[q]

(* ---------------- C4 ---------------- *)
\* C4 (as claimed): no two rows of the table have the same id.
IdUnique == \A i \in Ids : CountId(table, i) <= 1

(* ---------------- C5 ---------------- *)
\* C5: no two rows of the table have the same url.
UrlUnique == \A u \in Urls : CountUrl(table, u) <= 1

\* one url was submitted by two callers, both answered, beside another row
UrlUniqueWitness ==
    /\ BagCardinality(table) >= 2
    /\ \E p, q \in Procs :
          /\ p # q /\ PostOver(p) /\ PostOver(q)
          /\ ret[p].ok /\ ret[q].ok
          /\ req[p].url = req[q].url

(* ---------------- C6 ---------------- *)
\* C6 (as claimed): the identifiers shorten returned for two distinct urls
\* differ.
DistinctUrlsDistinctIds ==
    \A s1, s2 \in shortened : s1[1] # s2[1] => s1[2] # s2[2]

(* ---------------- C7 ---------------- *)
\* C7: a get_url(id) for an identifier no shorten call has returned ends in
\* an error, never in a url: the answer carries no Location header.
NotFound ==
    \A p \in Procs :
       (GetOver(p) /\ req[p].id \notin ReturnedIds) =>
          /\ ~ret[p].ok
          /\ pc[p] = "done"
          /\ resp[p].hdr = {}

\* a lookup of a never-returned identifier has been answered from a table
\* that holds rows, with no failure of the persistence layer
NotFoundWitness ==
    \E p \in Procs :
       /\ GetOver(p) /\ req[p].id \notin ReturnedIds /\ ~fault[p]
       /\ req[p].id \in Ids
       /\ BagCardinality(table) >= 1

GetOutcome ==
    \A p \in Procs :
       GetOver(p) =>
          /\ pc[p] = "done"
          /\ \/ /\ resp[p].status = 302
                /\ \E r \in Rows(table) :
                      r.id = req[p].id /\ resp[p].hdr = {<<"location", r.url>>}
             \/ resp[p].status = 404

(* ---------------- C10 ---------------- *)
\* C10: POST / is answered with 201 and the body url "http://0.0.0.0:8080/"
\* followed by the returned identifier when the store call succeeded, and
\* with 422 when it returned any error.
PostOutcome ==
    \A p \in Procs :
       PostOver(p) =>
          IF ret[p].ok
          THEN /\ resp[p].status = 201
               /\ resp[p].body = "http://0.0.0.0:8080/" \o ret[p].val
          ELSE /\ resp[p].status = 422
               /\ resp[p].body = "422 Unprocessable Entity"

\* one POST has succeeded and another has met a store error
PostOutcomeWitness ==
    \E p, q \in Procs :
       /\ PostOver(p) /\ PostOver(q)
       /\ ret[p].ok /\ ~ret[q].ok /\ fault[q]

(* ---------------- C11 ---------------- *)
\* C11 (as claimed): the upsert statement is only about to run with a
\* candidate whose most recent count query returned 0; any nonzero count
\* sends the call back to draw a new candidate.
UpsertOnlyAfterZero ==
    \A p \in Procs : pc[p] = "upsert" => flag[p] = 0

(* ---------------- C12 ---------------- *)
\* the upsert of p runs to its return in this step while url u has a row
Resubmits(p) ==
    /\ pc[p] = "upsert" /\ pc'[p] = "done" /\ ~fault'[p]
    /\ CountUrl(table, req[p].url) >= 1

\* C12 (as claimed): an upsert that finds a row with its url leaves the
\* table as it was, returns that row's id, and the candidate is the id of
\* no row.
ResubmissionUnchanged ==
    [][\A p \in Procs :
         Resubmits(p) =>
            /\ table' = table
            /\ \E r \in Rows(table) :
                  r.url = req[p].url /\ ret'[p].ok /\ ret'[p].val = r.id
            /\ CountId(table', id[p]) = 0]_vars

\* C12 (amended): an upsert that finds a row with its url leaves the table
\* as it was (no row carrying the candidate is added) and returns that
\* row's id.
ResubmissionKeepsTable ==
    [][\A p \in Procs :
         Resubmits(p) =>
            /\ table' = table
            /\ \E r \in Rows(table) :
                  r.url = req[p].url /\ ret'[p].ok /\ ret'[p].val = r.id]_vars

\* a call begun while its url had no row met the row another call inserted
\* meanwhile and returned that row's id, not its own candidate
ResubmissionWitness ==
    \E p \in Procs :
       /\ PostOver(p) /\ fresh[p] /\ ret[p].ok
       /\ id[p] # ret[p].val
       /\ CountId(table, id[p]) = 0

(* ---------------- C13 ---------------- *)
\* C13: the table changes only in the step in which a shorten call returns
\* an identifier; a step of a call that returns an error, and every step of
\* get_url, leaves the table as it was.
AllOrNothing ==
    [][table' # table =>
         \E p \in Procs :
            pc[p] = "upsert" /\ pc'[p] = "done" /\ ret'[p].ok]_vars

\* a shorten call failed after it had drawn a candidate, a lookup failed
\* too, and neither the url nor the candidate of the failed call has a row
AllOrNothingWitness ==
    \E p, q \in Procs :
       /\ PostOver(p) /\ fault[p] /\ id[p] \in Ids
       /\ CountUrl(table, req[p].url) = 0
       /\ GetOver(q) /\ fault[q]

(* ---------------- C14 ---------------- *)
\* C14: every row of the table is a row of the table, with the same id and
\* url, after every step.
MappingsPermanent ==
    [][\A r \in Rows(table) :
         r \in Rows(table') /\ CopiesIn(r, table') >= CopiesIn(r, table)]_vars

\* a url has been resubmitted and its identifier looked up since the row
\* was created
MappingsPermanentWitness ==
    \E p, q \in Procs :
       /\ PostOver(p) /\ ~fresh[p] /\ ret[p].ok
       /\ GetOver(q) /\ ret[q].ok
       /\ \E r \in Rows(table) : r.id = req[q].id /\ r.url = req[p].url

(* ---------------- C15 ---------------- *)
\* every identifier is carried by some row
NoFreeId == \A i \in Ids : CountId(table, i) >= 1

\* C15: when no statement fails and nanoid draws fairly, every shorten call
\* eventually returns an identifier, unless the table comes to carry every
\* identifier.
RetryLoopTerminates ==
    \A p \in Procs :
       (pc[p] \in {"count", "upsert"}) ~>
          ((PostOver(p) /\ ret[p].ok) \/ NoFreeId)

\* a call is back in the loop after a collision while a free identifier
\* exists
RetryLoopWitness ==
    \E p \in Procs :
       /\ pc[p] = "count" /\ flag[p] = 1
       /\ ~NoFreeId

(* ---------------- C16 ---------------- *)
\* every identifier is carried by exactly one row
FullTable == \A i \in Ids : CountId(table, i) = 1

\* C16: while every identifier is carried by exactly one row, a step of a
\* shorten call that is in its loop leaves it in the loop, whether or not
\* its url has a row, unless the count query fails.
FullTableNeverReturns ==
    [][\A p \in Procs :
         (FullTable /\ pc[p] = "count") =>
            (pc'[p] = "count" \/ fault'[p])]_vars

\* a call for an already mapped url has met a collision on a full table
FullTableWitness ==
    \E p \in Procs :
       /\ FullTable
       /\ pc[p] = "count" /\ flag[p] = 1
       /\ CountUrl(table, req[p].url) = 1
====
